---- MODULE Spec2Model ----
(***************************************************************************)
(* A model of the instant-seal authorship task (run_instant_seal), its     *)
(* verifier and block-import wrapper, and of the manual-seal RPC front     *)
(* end (ManualSeal::create_block) with its command channel.                *)
(*                                                                         *)
(* Two tasks drive the proposal pipeline: "auto", the for_each loop over   *)
(* the pool's import notification stream, and "manual", the consumer of    *)
(* the command channel.  The external collaborators (pool, chain selector, *)
(* proposer environment, inherent data providers, inner block import) are  *)
(* nondeterministic: each call returns Ok or Err.                          *)
(***************************************************************************)
EXTENDS Integers, Sequences, FiniteSets, TLC

\* Number of triggers in a run: transactions the pool imports (one
\* notification each) plus create_block calls.
MaxTriggers == 3

VARIABLES
    ready,          \* pool.status().ready
    stream,         \* pending items of pool.import_notification_stream()
    streamOpen,     \* the notification stream has not ended
    nextTx,         \* number of transactions imported by the pool so far
    channel,        \* the command channel's queue (mpsc unbounded)
    receiverOpen,   \* the channel's receiver is alive
    rpcCount,       \* number of create_block calls made so far
    lastCall,       \* the latest create_block call: force, send result, return
    chanIds,        \* history: the accepted calls not yet received, in call order
    lastRecvId,     \* history: the call whose command was received last
    task,           \* per task: position and locals of the current cycle
    envLock,        \* Mutex around env: "free" or its holder
    importLock,     \* Mutex around block_import: "free" or its holder
    bestHead,       \* the chain's best header
    vin,            \* verifier: the arguments of a verify call
    vout,           \* verifier: the value verify returned
    shim            \* the import wrapper and a bare inner import, side by side

vars == <<ready, stream, streamOpen, nextTx, channel, receiverOpen, rpcCount,
          lastCall, chanIds, lastRecvId, task, envLock, importLock, bestHead, vin, vout,
          shim>>

poolVars == <<ready, stream, streamOpen, nextTx>>
chanVars == <<channel, receiverOpen, rpcCount, lastCall, chanIds, lastRecvId>>
lockVars == <<envLock, importLock>>
verVars  == <<vin, vout, shim>>

----------------------------------------------------------------------------
\* Option<T>
None == <<>>
Some(x) == <<x>>
IsSome(o) == o # None
Unwrap(o) == o[1]

Procs == {"auto", "manual"}
Free == "free"

\* Headers and blocks.  A header is its number and its parent's number.
Genesis == [number |-> 0, parent |-> 0]
Bodies == {<<>>, <<"xt">>}
NewBlock(parent, body) ==
    [header |-> [number |-> parent.number + 1, parent |-> parent.number],
     extrinsics |-> body]

\* Block::deconstruct: the block's header and its extrinsics.
deconstruct(block) == <<block.header, block.extrinsics>>

\* The cycle-local state of a task at a cycle start.  calls, warns, failed,
\* readyRead, block, import_call and res record what the cycle did.
FreshCycle(f) ==
    [pc |-> "check", force |-> f,
     best_block_header |-> None, proposer |-> None, block |-> None,
     import_params |-> None, import_call |-> None, res |-> None,
     calls |-> <<>>, warns |-> <<>>, failed |-> None, readyRead |-> None,
     prevFailed |-> FALSE,
     note |-> None, overrun |-> FALSE, started |-> 0, finished |-> 0]

\* A task between two cycles; prevFailed records that its last cycle ended
\* on a stage failure.
IdleTask == [FreshCycle(FALSE) EXCEPT !.pc = "idle"]

\* The cycle a task starts on trigger n with force f.  note is the trigger,
\* started and finished count the task's cycles, overrun records that the
\* cycle's proposal has outlived its time budget.
NextCycle(t, f, n) ==
    [FreshCycle(f) EXCEPT !.prevFailed = t.prevFailed, !.note = Some(n),
                          !.started = t.started + 1, !.finished = t.finished]

\* Mutant: the block is not marked final.
OwnImportParamsNotFinal(header, body) ==
    [origin |-> "Own", header |-> header, justification |-> None,
     post_digests |-> <<>>, body |-> Some(body), finalized |-> FALSE,
     auxiliary |-> <<>>, fork_choice |-> "LongestChain",
     allow_missing_state |-> FALSE]

\* Mutant: the block's body is replaced by an empty one.
OwnImportParamsEmptyBody(header, body) ==
    [origin |-> "Own", header |-> header, justification |-> None,
     post_digests |-> <<>>, body |-> Some(<<>>), finalized |-> TRUE,
     auxiliary |-> <<>>, fork_choice |-> "LongestChain",
     allow_missing_state |-> FALSE]

----------------------------------------------------------------------------
\* BlockImportParams built for a just-proposed block.
OwnImportParams(header, body) ==
    [origin |-> "Own",
     header |-> header,
     justification |-> None,
     post_digests |-> <<>>,
     body |-> Some(body),
     finalized |-> TRUE,
     auxiliary |-> <<>>,
     fork_choice |-> "LongestChain",
     allow_missing_state |-> FALSE]

\* HashMap::new()
EmptyCache == {}

\* The inner block import: an external collaborator that accepts (ok) or
\* rejects the block.  On success the longest chain becomes the best one.
\* got is the call as the inner import received it.
inner_import_block(head, block, cache, ok) ==
    IF ok
    THEN [result |-> <<"Ok", "Imported">>,
          head |-> IF block.header.number > head.number THEN block.header ELSE head,
          got |-> <<[method |-> "import_block", block |-> block, cache |-> cache]>>]
    ELSE [result |-> <<"Err", "ImportError">>, head |-> head,
          got |-> <<[method |-> "import_block", block |-> block, cache |-> cache]>>]

\* Mutant: the TODO of the wrapper is carried out, post-digests are stripped.
import_blockStrip(head, block, cache, ok) ==
    inner_import_block(head, [block EXCEPT !.post_digests = <<>>], cache, ok)

\* InstantSealBlockImport::import_block
import_block(head, block, cache, ok) == inner_import_block(head, block, cache, ok)

\* The inner import's check_block: it answers with the outcome res.
inner_check_block(head, block, res) ==
    [result |-> res, head |-> head,
     got |-> <<[method |-> "check_block", block |-> block, cache |-> {}]>>]

\* InstantSealBlockImport::check_block
check_block(head, block, res) == inner_check_block(head, block, res)

\* Mutant: lock returns without waiting for the holder.
MutexNoWait(m) == TRUE

\* Mutex::lock returns once the mutex is free.
MutexFree(m) == m = Free

\* Mutant: the guard is kept alive after the statement.
MutexKeep(m, p) == m

\* The guard, a temporary of the statement, is dropped at its end.
MutexUnlock(m, p) == IF m = p THEN Free ELSE m

\* Mutant: the head read at start-up is used again.
best_chainCached(head) == Genesis

\* SelectChain::best_chain: the chain's best header at the time of the call.
best_chain(head) == head

\* Mutant: the comparison is inverted.
ReadySkipInverted(r) == r # 0

\* The ready check of the automatic cycle.
ReadySkip(r) == r = 0

\* Mutant: force is ignored.
ManualSkipIgnoresForce(f, r) == r = 0

\* The ready check of a manual cycle: force bypasses it.  The sources hold
\* no consumer of the command channel; this follows the design document's
\* pipeline step 1.
ManualSkip(f, r) == ~f /\ ReadySkip(r)

SkipCycle(p) ==
    IF p = "auto" THEN ReadySkip(ready) ELSE ManualSkip(task[p].force, ready)

\* The entries a failing stage writes to the log.
StageWarns(stage) ==
    IF stage \in {"propose", "import_block"}
    THEN <<[level |-> "warn", stage |-> stage]>>
    ELSE <<>>

Called(t, stage) == Append(t.calls, stage)

\* Mutant: a failed best_chain does not end the cycle.
AbortFallThrough(t, stage) ==
    [t EXCEPT !.pc = IF stage = "best_chain" THEN "init_lock" ELSE "done",
              !.failed = Some(stage),
              !.warns = t.warns \o StageWarns(stage)]

\* Mutant: a failed import is tried again.
AbortRetryImport(t, stage) ==
    [t EXCEPT !.pc = IF stage = "import_block" THEN "import_lock" ELSE "done",
              !.failed = Some(stage),
              !.warns = t.warns \o StageWarns(stage)]

\* Mutant: the failure ends the task instead of the cycle.
AbortFatal(t, stage) ==
    [t EXCEPT !.pc = "terminated", !.failed = Some(stage)]

\* A stage returned Err: log, and return from the async block.
Abort(t, stage) ==
    [t EXCEPT !.pc = "done", !.failed = Some(stage),
              !.warns = t.warns \o StageWarns(stage)]

\* InstantSealBlockImport::from(inner), next to a copy of the inner import.
ShimInit ==
    [wrapped |-> [head |-> Genesis, log |-> <<>>],
     bare |-> [head |-> Genesis, log |-> <<>>],
     last |-> None]

----------------------------------------------------------------------------
InitEngine ==
    /\ ready = 0
    /\ stream = <<>>
    /\ streamOpen = TRUE
    /\ nextTx = 0
    /\ channel = <<>>
    /\ receiverOpen = TRUE
    /\ rpcCount = 0
    /\ lastCall = None
    /\ chanIds = <<>>
    /\ lastRecvId = 0
    /\ task = [p \in Procs |-> IdleTask]
    /\ envLock = Free
    /\ importLock = Free
    /\ bestHead = Genesis
    /\ shim = ShimInit

Init ==
    /\ InitEngine
    /\ vin = None
    /\ vout = None

----------------------------------------------------------------------------
\* The transaction pool (external).

\* The pool imports a transaction: it becomes ready and a notification is sent.
SubmitTx ==
    /\ streamOpen
    /\ nextTx + rpcCount < MaxTriggers
    /\ nextTx' = nextTx + 1
    /\ ready' = ready + 1
    /\ stream' = Append(stream, nextTx + 1)
    /\ UNCHANGED <<streamOpen, chanVars, task, lockVars, bestHead, verVars>>

\* The pool prunes its ready transactions (they were included in a block).
PoolPrune ==
    /\ ready > 0
    /\ ready' = 0
    /\ UNCHANGED <<stream, streamOpen, nextTx, chanVars, task, lockVars,
                   bestHead, verVars>>

\* The pool is dropped: the notification stream ends.
StreamClose ==
    /\ streamOpen
    /\ streamOpen' = FALSE
    /\ UNCHANGED <<ready, stream, nextTx, chanVars, task, lockVars, bestHead,
                   verVars>>

----------------------------------------------------------------------------
\* The automatic trigger: for_each over the notification stream.

\* Mutant: the next notification is taken while the cycle awaits its proposal.
AutoNextEager ==
    /\ task["auto"].pc \in {"idle", "proposing"}
    /\ stream # <<>>
    /\ stream' = Tail(stream)
    /\ task' = [task EXCEPT !["auto"] = NextCycle(task["auto"], FALSE, Head(stream))]
    /\ UNCHANGED <<ready, streamOpen, nextTx, chanVars, lockVars, bestHead,
                   verVars>>

\* Mutant: the notifications that queued up are taken as one.
AutoNextCoalesce ==
    /\ task["auto"].pc = "idle"
    /\ stream # <<>>
    /\ stream' = <<>>
    /\ task' = [task EXCEPT !["auto"] = NextCycle(task["auto"], FALSE, Head(stream))]
    /\ UNCHANGED <<ready, streamOpen, nextTx, chanVars, lockVars, bestHead,
                   verVars>>

\* for_each takes the next notification and calls the closure; the
\* notification itself is ignored (move |_|).
AutoNext ==
    /\ task["auto"].pc = "idle"
    /\ stream # <<>>
    /\ stream' = Tail(stream)
    /\ task' = [task EXCEPT !["auto"] = NextCycle(task["auto"], FALSE, Head(stream))]
    /\ UNCHANGED <<ready, streamOpen, nextTx, chanVars, lockVars, bestHead,
                   verVars>>

\* Mutant: the task ends as soon as no notification waits.
AutoFinishOnEmpty ==
    /\ task["auto"].pc = "idle"
    /\ stream = <<>>
    /\ task' = [task EXCEPT !["auto"].pc = "terminated"]
    /\ UNCHANGED <<poolVars, chanVars, lockVars, bestHead, verVars>>

\* The stream has ended: for_each completes and run_instant_seal returns.
AutoFinish ==
    /\ task["auto"].pc = "idle"
    /\ stream = <<>>
    /\ ~streamOpen
    /\ task' = [task EXCEPT !["auto"].pc = "terminated"]
    /\ UNCHANGED <<poolVars, chanVars, lockVars, bestHead, verVars>>

----------------------------------------------------------------------------
\* The proposal pipeline, one action per stage.

ReadyCheck(p) ==
    /\ task[p].pc = "check"
    /\ LET t == [task[p] EXCEPT !.calls = Called(task[p], "status"),
                                !.readyRead = Some(ready)]
       IN task' = [task EXCEPT ![p] =
                     IF SkipCycle(p) THEN [t EXCEPT !.pc = "done"]
                                     ELSE [t EXCEPT !.pc = "best"]]
    /\ UNCHANGED <<poolVars, chanVars, lockVars, bestHead, verVars>>

BestChain(p) ==
    /\ task[p].pc = "best"
    /\ \E ok \in BOOLEAN :
         LET t == [task[p] EXCEPT !.calls = Called(task[p], "best_chain")]
         IN task' = [task EXCEPT ![p] =
                       IF ok
                       THEN [t EXCEPT !.best_block_header = Some(best_chain(bestHead)),
                                      !.pc = "init_lock"]
                       ELSE Abort(t, "best_chain")]
    /\ UNCHANGED <<poolVars, chanVars, lockVars, bestHead, verVars>>

\* env.clone().lock()
EnvLock(p) ==
    /\ task[p].pc = "init_lock"
    /\ MutexFree(envLock)
    /\ envLock' = p
    /\ task' = [task EXCEPT ![p].pc = "init"]
    /\ UNCHANGED <<poolVars, chanVars, importLock, bestHead, verVars>>

\* .init(&best_block_header); the guard is dropped at the end of the statement.
ProposerInit(p) ==
    /\ task[p].pc = "init"
    /\ envLock' = MutexUnlock(envLock, p)
    /\ \E ok \in BOOLEAN :
         LET t == [task[p] EXCEPT !.calls = Called(task[p], "init")]
         IN task' = [task EXCEPT ![p] =
                       IF ok
                       THEN [t EXCEPT !.proposer = t.best_block_header,
                                      !.pc = "inherent"]
                       ELSE Abort(t, "init")]
    /\ UNCHANGED <<poolVars, chanVars, importLock, bestHead, verVars>>

CreateInherentData(p) ==
    /\ task[p].pc = "inherent"
    /\ \E ok \in BOOLEAN :
         LET t == [task[p] EXCEPT !.calls = Called(task[p], "create_inherent_data")]
         IN task' = [task EXCEPT ![p] =
                       IF ok THEN [t EXCEPT !.pc = "propose"]
                             ELSE Abort(t, "create_inherent_data")]
    /\ UNCHANGED <<poolVars, chanVars, lockVars, bestHead, verVars>>

\* proposer.propose(..) is called and awaited.
Propose(p) ==
    /\ task[p].pc = "propose"
    /\ task' = [task EXCEPT ![p].calls = Called(task[p], "propose"),
                            ![p].pc = "proposing"]
    /\ UNCHANGED <<poolVars, chanVars, lockVars, bestHead, verVars>>

\* The proposal's time budget, Duration::from_secs(5), runs out while the
\* future is still pending.  Nothing in the cycle reacts to it.
BudgetElapsed(p) ==
    /\ task[p].pc = "proposing"
    /\ ~task[p].overrun
    /\ task' = [task EXCEPT ![p].overrun = TRUE]
    /\ UNCHANGED <<poolVars, chanVars, lockVars, bestHead, verVars>>

\* Mutant: a proposal that outlives its budget is never picked up.
ProposalReadyInBudget(t) == t.pc = "proposing" /\ ~t.overrun

\* .await: the cycle resumes when the proposer resolves the future, within
\* the budget or after it.
ProposalReady(t) == t.pc = "proposing"

\* The proposal future resolves; on Ok the import parameters are built.
ProposeDone(p) ==
    /\ ProposalReady(task[p])
    /\ \/ \E body \in Bodies :
            LET block == NewBlock(Unwrap(task[p].proposer), body)
                hb == deconstruct(block)
            IN task' = [task EXCEPT ![p].block = Some(block),
                                    ![p].import_params =
                                        Some(OwnImportParams(hb[1], hb[2])),
                                    ![p].pc = "import_lock"]
       \/ task' = [task EXCEPT ![p] = Abort(task[p], "propose")]
    /\ UNCHANGED <<poolVars, chanVars, lockVars, bestHead, verVars>>

\* block_import.clone().lock()
ImportLock(p) ==
    /\ task[p].pc = "import_lock"
    /\ MutexFree(importLock)
    /\ importLock' = p
    /\ task' = [task EXCEPT ![p].pc = "importing"]
    /\ UNCHANGED <<poolVars, chanVars, envLock, bestHead, verVars>>

\* .import_block(import_params, HashMap::new()); the guard is dropped at the
\* end of the statement; an error is logged.
ImportBlock(p) ==
    /\ task[p].pc = "importing"
    /\ \E ok \in BOOLEAN :
         LET params == Unwrap(task[p].import_params)
             r == import_block(bestHead, params, EmptyCache, ok)
             t == [task[p] EXCEPT !.calls = Called(task[p], "import_block"),
                                  !.import_call =
                                      Some([block |-> params, cache |-> EmptyCache]),
                                  !.res = Some(r.result)]
         IN /\ bestHead' = r.head
            /\ task' = [task EXCEPT ![p] =
                          IF ok THEN [t EXCEPT !.pc = "done"]
                                ELSE Abort(t, "import_block")]
    /\ importLock' = MutexUnlock(importLock, p)
    /\ UNCHANGED <<poolVars, chanVars, envLock, verVars>>

\* The async block returns: its locals are dropped and the task waits for
\* its next trigger.
CycleEnd(p) ==
    /\ task[p].pc = "done"
    /\ task' = [task EXCEPT ![p] =
                  [IdleTask EXCEPT !.prevFailed = IsSome(task[p].failed),
                                   !.started = task[p].started,
                                   !.finished = task[p].finished + 1]]
    /\ UNCHANGED <<poolVars, chanVars, lockVars, bestHead, verVars>>

Pipeline(p) ==
    \/ ReadyCheck(p)
    \/ BestChain(p)
    \/ EnvLock(p)
    \/ ProposerInit(p)
    \/ CreateInherentData(p)
    \/ Propose(p)
    \/ ProposeDone(p)
    \/ ImportLock(p)
    \/ ImportBlock(p)
    \/ CycleEnd(p)

----------------------------------------------------------------------------
\* The manual-seal RPC and its command channel.

SealNewBlock(f) == [cmd |-> "SealNewBlock", force |-> f]
CreateFork == [cmd |-> "CreateFork"]

\* Mutant: a send to a dropped receiver is queued and reported as sent.
unbounded_sendNoSignal(queue, open, msg) ==
    [queue |-> Append(queue, msg), result |-> "Ok"]

\* UnboundedSender::unbounded_send: never blocks; the message is queued while
\* the receiver is alive, and refused with a disconnected error after.
unbounded_send(queue, open, msg) ==
    IF open THEN [queue |-> Append(queue, msg), result |-> "Ok"]
            ELSE [queue |-> queue, result |-> "Disconnected"]

\* Mutant: the force argument is not passed on.
create_blockForced(queue, open, f) ==
    LET s == IF open THEN [queue |-> Append(queue, [cmd |-> "SealNewBlock", force |-> TRUE]),
                           result |-> "Ok"]
                     ELSE [queue |-> queue, result |-> "Disconnected"]
    IN [queue |-> s.queue, send |-> s.result, ret |-> "Ok"]

\* ManualSeal::create_block: the send's result is discarded.
create_block(queue, open, f) ==
    LET s == unbounded_send(queue, open, SealNewBlock(f))
    IN [queue |-> s.queue, send |-> s.result, ret |-> "Ok"]

\* An RPC call engine_createBlock(force).  It is one synchronous step: it
\* has no guard on the state of any cycle.
CreateBlock ==
    /\ nextTx + rpcCount < MaxTriggers
    /\ \E f \in BOOLEAN :
         LET r == create_block(channel, receiverOpen, f)
         IN /\ channel' = r.queue
            /\ chanIds' = IF r.send = "Ok"
                          THEN Append(chanIds, [id |-> rpcCount + 1, force |-> f])
                          ELSE chanIds
            /\ lastCall' = Some([force |-> f, send |-> r.send, ret |-> r.ret])
    /\ rpcCount' = rpcCount + 1
    /\ UNCHANGED <<poolVars, receiverOpen, lastRecvId, task, lockVars, bestHead,
                   verVars>>

\* The manual trigger takes a SealNewBlock command and starts a cycle with
\* the command's force value.  The sources hold the command type and the
\* sender only; the receiving side follows the design document.
ManualSealNewBlock ==
    /\ task["manual"].pc = "idle"
    /\ receiverOpen
    /\ channel # <<>>
    /\ Head(channel).cmd = "SealNewBlock"
    /\ channel' = Tail(channel)
    /\ chanIds' = Tail(chanIds)
    /\ lastRecvId' = Head(chanIds).id
    /\ task' = [task EXCEPT !["manual"] =
                  NextCycle(task["manual"], Head(channel).force, Head(chanIds).id)]
    /\ UNCHANGED <<poolVars, receiverOpen, rpcCount, lastCall, lockVars,
                   bestHead, verVars>>

\* The engine task stops: the receiver is dropped with its queue (from the
\* design document, as the receiving side is).
EngineStop ==
    /\ task["manual"].pc = "idle"
    /\ receiverOpen
    /\ receiverOpen' = FALSE
    /\ channel' = <<>>
    /\ chanIds' = <<>>
    /\ task' = [task EXCEPT !["manual"].pc = "terminated"]
    /\ UNCHANGED <<poolVars, rpcCount, lastCall, lastRecvId, lockVars, bestHead,
                   verVars>>

----------------------------------------------------------------------------
\* The import queue's verifier.

Origins == {"Genesis", "NetworkInitialSync", "NetworkBroadcast",
            "ConsensusBroadcast", "Own", "File"}
VerifyHeaders == {Genesis, [number |-> 1, parent |-> 0]}
Justifications == {None, Some("justification")}
VerifyBodies == {None} \cup {Some(b) : b \in Bodies}

\* Mutant: every verified block is labelled as the node's own.
verifyRelabelOwn(origin, header, justification, body) ==
    [tag |-> "Ok",
     import_params |->
        [origin |-> "Own", header |-> header, justification |-> justification,
         post_digests |-> <<>>, body |-> body, finalized |-> TRUE,
         auxiliary |-> <<>>, fork_choice |-> "LongestChain",
         allow_missing_state |-> FALSE],
     cache |-> None]

\* Mutant: only the node's own blocks are marked final.
verifyOwnFinal(origin, header, justification, body) ==
    [tag |-> "Ok",
     import_params |->
        [origin |-> origin, header |-> header, justification |-> justification,
         post_digests |-> <<>>, body |-> body, finalized |-> (origin = "Own"),
         auxiliary |-> <<>>, fork_choice |-> "LongestChain",
         allow_missing_state |-> FALSE],
     cache |-> None]

\* InstantSealVerifier::verify
verify(origin, header, justification, body) ==
    [tag |-> "Ok",
     import_params |->
        [origin |-> origin,
         header |-> header,
         justification |-> justification,
         post_digests |-> <<>>,
         body |-> body,
         finalized |-> TRUE,
         auxiliary |-> <<>>,
         fork_choice |-> "LongestChain",
         allow_missing_state |-> FALSE],
     cache |-> None]

InitVerifier ==
    /\ InitEngine
    /\ vin \in {Some([origin |-> o, header |-> h, justification |-> j, body |-> b]) :
                  o \in Origins, h \in VerifyHeaders, j \in Justifications,
                  b \in VerifyBodies}
    /\ vout = None

\* The import queue verifies a received block.
VerifyBlock ==
    /\ IsSome(vin)
    /\ vout = None
    /\ LET a == Unwrap(vin)
       IN vout' = Some(verify(a.origin, a.header, a.justification, a.body))
    /\ UNCHANGED <<poolVars, chanVars, task, lockVars, bestHead, vin, shim>>

NextVerifier == VerifyBlock

----------------------------------------------------------------------------
\* The block-import wrapper, called next to a bare inner import.

\* Number of calls made to the wrapper.
MaxShimCalls == 2

\* Import parameters, with and without post-digests.
ShimParams ==
    {[OwnImportParams(h, <<>>) EXCEPT !.origin = o, !.post_digests = d] :
        h \in VerifyHeaders, o \in {"Own", "NetworkBroadcast"},
        d \in {<<>>, <<"seal">>}}
ShimCaches == {{}, {"key"}}
CheckParams == {[number |-> h.number, parent |-> h.parent, allow_missing_state |-> FALSE] :
                   h \in VerifyHeaders}
CheckOutcomes == {<<"Ok", "Imported">>, <<"Ok", "AlreadyInChain">>,
                  <<"Err", "ImportError">>}

\* What a call leaves behind: the two imports' states and the two results.
ShimAfter(call, w, b) ==
    [wrapped |-> [head |-> w.head, log |-> shim.wrapped.log \o w.got],
     bare |-> [head |-> b.head, log |-> shim.bare.log \o b.got],
     last |-> Some([call |-> call, wrapped |-> w.result, bare |-> b.result])]

ShimImportBlock ==
    /\ Len(shim.bare.log) < MaxShimCalls
    /\ \E block \in ShimParams, cache \in ShimCaches, ok \in BOOLEAN :
          shim' = ShimAfter([method |-> "import_block", block |-> block, cache |-> cache],
                            import_block(shim.wrapped.head, block, cache, ok),
                            inner_import_block(shim.bare.head, block, cache, ok))
    /\ UNCHANGED <<poolVars, chanVars, task, lockVars, bestHead, vin, vout>>

ShimCheckBlock ==
    /\ Len(shim.bare.log) < MaxShimCalls
    /\ \E block \in CheckParams, res \in CheckOutcomes :
          shim' = ShimAfter([method |-> "check_block", block |-> block, cache |-> {}],
                            check_block(shim.wrapped.head, block, res),
                            inner_check_block(shim.bare.head, block, res))
    /\ UNCHANGED <<poolVars, chanVars, task, lockVars, bestHead, vin, vout>>

NextShim == ShimImportBlock \/ ShimCheckBlock

SpecShim == Init /\ [][NextShim]_vars

SpecVerifier == InitVerifier /\ [][NextVerifier]_vars

Next ==
    \/ SubmitTx
    \/ PoolPrune
    \/ StreamClose
    \/ AutoNext
    \/ AutoFinish
    \/ CreateBlock
    \/ ManualSealNewBlock
    \/ EngineStop
    \/ \E p \in Procs : Pipeline(p)

Spec == Init /\ [][Next]_vars

\* run_instant_seal on its own, with the clock of the proposal budget.  The
\* executor polls the task whenever it can make progress, and the proposer
\* resolves its future (it is handed the budget as its deadline).
NextAuto ==
    \/ SubmitTx
    \/ PoolPrune
    \/ StreamClose
    \/ AutoNext
    \/ AutoFinish
    \/ BudgetElapsed("auto")
    \/ Pipeline("auto")

SpecAuto ==
    /\ Init
    /\ [][NextAuto]_vars
    /\ WF_vars(AutoNext)
    /\ WF_vars(AutoFinish)
    /\ WF_vars(Pipeline("auto"))

----------------------------------------------------------------------------
\* Helpers of the properties.

RECURSIVE Count(_, _)
Count(seq, x) ==
    IF seq = <<>> THEN 0
    ELSE (IF Head(seq) = x THEN 1 ELSE 0) + Count(Tail(seq), x)

InCalls(t, stage) == Count(t.calls, stage) > 0

\* The stages after the ready check.
LaterStages == {"best_chain", "init", "create_inherent_data", "propose",
                "import_block"}

----------------------------------------------------------------------------
\* C1: a cycle that is not forced and reads a ready count of zero ends
\* right after the read: it calls none of best_chain, init,
\* create_inherent_data, propose and import_block, takes no lock and makes
\* no import call.
C1_ReadinessSkip ==
    \A p \in Procs :
        (task[p].readyRead = Some(0) /\ ~task[p].force) =>
            /\ task[p].pc = "done"
            /\ task[p].calls = <<"status">>
            /\ \A st \in LaterStages : ~InCalls(task[p], st)
            /\ task[p].import_call = None
            /\ task[p].failed = None
            /\ envLock # p /\ importLock # p

\* An automatic cycle has read zero ready transactions and has ended.
C1_Witness ==
    /\ task["auto"].pc = "done"
    /\ task["auto"].readyRead = Some(0)
    /\ ready = 0

\* C2: every import_block call of the pipeline passes a directive with
\* origin Own, finalized, LongestChain, allow_missing_state false, no
\* justification, no post-digests, no auxiliary data and a present body,
\* together with an empty cache map, whatever the pool holds.
C2_OwnImportDirective ==
    \A p \in Procs :
        IsSome(task[p].import_call) =>
            LET c == Unwrap(task[p].import_call)
            IN /\ c.block.origin = "Own"
               /\ c.block.finalized = TRUE
               /\ c.block.fork_choice = "LongestChain"
               /\ c.block.allow_missing_state = FALSE
               /\ c.block.justification = None
               /\ c.block.post_digests = <<>>
               /\ c.block.auxiliary = <<>>
               /\ IsSome(c.block.body)
               /\ c.cache = {}

\* An import call was made after the pool was emptied.
C2_Witness ==
    /\ IsSome(task["auto"].import_call)
    /\ ready = 0

\* C3: at most one pipeline run is inside the import critical section, and
\* the run inside it holds the import lock.
C3_ImportMutex ==
    /\ ~(task["auto"].pc = "importing" /\ task["manual"].pc = "importing")
    /\ \A p \in Procs : task[p].pc = "importing" => importLock = p

\* One run is importing while the other waits for the import lock.
C3_Witness ==
    /\ task["auto"].pc = "importing"
    /\ task["manual"].pc = "import_lock"

\* C4: verify returns Ok for every origin, header, justification and body,
\* with a directive that is finalized, LongestChain, allow_missing_state
\* false, without post-digests or auxiliary data, and with no cache entries.
C4_VerifyAlwaysFinal ==
    /\ (IsSome(vin) /\ ~ENABLED VerifyBlock) => IsSome(vout)
    /\ IsSome(vout) =>
         LET r == Unwrap(vout)
         IN /\ r.tag = "Ok"
            /\ r.import_params.finalized = TRUE
            /\ r.import_params.fork_choice = "LongestChain"
            /\ r.import_params.allow_missing_state = FALSE
            /\ r.import_params.post_digests = <<>>
            /\ r.import_params.auxiliary = <<>>
            /\ r.cache = None

\* verify has returned for a block received from the network, without a body.
C4_Witness ==
    /\ IsSome(vout)
    /\ Unwrap(vin).origin = "NetworkBroadcast"
    /\ Unwrap(vin).body = None

\* C5: a cycle that passed the ready check and in which best_chain, init,
\* create_inherent_data and propose succeeded has, when it ends, called
\* import_block exactly once, with the header and the body of the block
\* propose returned, and its proposer was initialized on the best header
\* that cycle's best_chain returned.
C5_SuccessPath ==
    \A p \in Procs :
        /\ Count(task[p].calls, "import_block") <= 1
        /\ (task[p].pc = "done" /\ IsSome(task[p].block)) =>
              /\ Count(task[p].calls, "import_block") = 1
              /\ IsSome(task[p].import_call)
              /\ Unwrap(task[p].import_call).block.header
                    = deconstruct(Unwrap(task[p].block))[1]
              /\ Unwrap(task[p].import_call).block.body
                    = Some(deconstruct(Unwrap(task[p].block))[2])
              /\ IsSome(task[p].best_block_header)
              /\ task[p].proposer = task[p].best_block_header
              /\ Unwrap(task[p].block).header.parent
                    = Unwrap(task[p].best_block_header).number
        /\ (task[p].pc \in {"import_lock", "importing"}) =>
              /\ IsSome(task[p].block)
              /\ ~InCalls(task[p], "import_block")

\* An automatic cycle with one ready transaction ended after importing a
\* block with a transaction, built on a head other than genesis.
C5_Witness ==
    /\ task["auto"].pc = "done"
    /\ task["auto"].readyRead = Some(1)
    /\ task["auto"].res = Some(<<"Ok", "Imported">>)
    /\ Unwrap(task["auto"].block).extrinsics = <<"xt">>
    /\ Unwrap(task["auto"].best_block_header).number = 1
\* C6: a stage failure ends the cycle and nothing else.  A task terminates
\* only when its trigger source is closed, never on a failure; a finished
\* cycle holds no lock; after a failed cycle the task takes the next
\* notification, and the cycle it starts is a fresh one at the ready check.
C6_EngineSurvives ==
    /\ task["auto"].pc = "terminated" => (~streamOpen /\ stream = <<>>)
    /\ task["manual"].pc = "terminated" => ~receiverOpen
    /\ \A p \in Procs :
          /\ task[p].pc \in {"done", "idle"} => (envLock # p /\ importLock # p)
          /\ (task[p].prevFailed /\ task[p].pc = "check") =>
                task[p] = [FreshCycle(task[p].force)
                             EXCEPT !.prevFailed = TRUE, !.note = task[p].note,
                                    !.started = task[p].started,
                                    !.finished = task[p].finished]
    /\ (task["auto"].prevFailed /\ task["auto"].pc = "idle" /\ stream # <<>>)
          => ENABLED AutoNext

\* The automatic cycle that followed a failed one ran to a successful import.
C6_Witness ==
    /\ task["auto"].prevFailed
    /\ task["auto"].pc = "done"
    /\ task["auto"].res = Some(<<"Ok", "Imported">>)

C8_EveryFailureLogged ==
    \A p \in Procs :
        IsSome(task[p].failed) =>
            \E i \in 1..Len(task[p].warns) :
                task[p].warns[i] = [level |-> "warn", stage |-> Unwrap(task[p].failed)]

\* C9 as stated: every create_block(force) call appends exactly one
\* SealNewBlock{force} to the command channel and returns Ok.
C9_AlwaysAppends ==
    [][rpcCount' = rpcCount + 1 =>
          /\ channel' = Append(channel, SealNewBlock(Unwrap(lastCall').force))
          /\ Unwrap(lastCall').ret = "Ok"]_vars

\* A create_block step: what it does to the channel, given the receiver.
CreateBlockEffect ==
    rpcCount' = rpcCount + 1 =>
        LET c == Unwrap(lastCall')
        IN /\ c.ret = "Ok"
           /\ task' = task
           /\ IF receiverOpen
              THEN /\ channel' = Append(channel, SealNewBlock(c.force))
                   /\ c.send = "Ok"
              ELSE channel' = channel

\* The queue holds SealNewBlock commands only, in the order of the calls
\* that sent them, all sent after the command received last.
ChannelFifo ==
    /\ Len(chanIds) = Len(channel)
    /\ \A i \in 1..Len(channel) :
          /\ channel[i] = SealNewBlock(chanIds[i].force)
          /\ chanIds[i].id > lastRecvId
          /\ \A j \in 1..Len(channel) : i < j => chanIds[i].id < chanIds[j].id

\* C9 (amended): while the receiver is alive a create_block(force) call
\* appends exactly one SealNewBlock{force}, never CreateFork; after the
\* receiver is dropped it appends nothing; in both cases it returns Ok in
\* the same step, without any cycle step; commands are received in the
\* order of the calls.
C9_CreateBlock == [][CreateBlockEffect]_vars /\ []ChannelFifo

\* Two calls with different force values have returned Ok while the first
\* command's cycle is still running and the second command is queued.
C9_Witness ==
    /\ rpcCount = 2
    /\ Unwrap(lastCall).ret = "Ok"
    /\ Len(channel) = 1
    /\ task["manual"].pc = "proposing"
    /\ task["manual"].force # channel[1].force

\* A send after the receiver is dropped.
ClosedSendEffect ==
    (rpcCount' = rpcCount + 1 /\ ~receiverOpen) =>
        /\ Unwrap(lastCall').send = "Disconnected"
        /\ channel' = channel

\* C10: once the receiver is dropped, a create_block call is still a step
\* that can be taken (the send does not wait), and the send reports that
\* the channel is disconnected and queues nothing.
C10_ClosedSignal ==
    /\ [][ClosedSendEffect]_vars
    /\ []((~receiverOpen /\ nextTx + rpcCount < MaxTriggers) => ENABLED CreateBlock)

\* A create_block call was made after the engine stopped.
C10_Witness ==
    /\ ~receiverOpen
    /\ IsSome(lastCall)
    /\ Unwrap(lastCall).send = "Disconnected"
    /\ channel = <<>>
\* C11: every notification of the stream starts exactly one automatic
\* cycle, with force false and whatever its payload: the notifications
\* taken and those still queued add up to those delivered, none is dropped
\* or merged while a cycle runs, and the k-th cycle is started by the k-th
\* notification.
C11_EveryNotificationOnce ==
    LET t == task["auto"]
    IN /\ t.started + Len(stream) = nextTx
       /\ \A i \in 1..Len(stream) : stream[i] = t.started + i
       /\ t.finished \in {t.started, t.started - 1}
       /\ (t.pc \notin {"idle", "terminated"}) =>
             /\ t.note = Some(t.started)
             /\ ~t.force
             /\ t.finished = t.started - 1
       /\ (t.pc \in {"idle", "terminated"}) => t.finished = t.started

\* The second cycle is running, the first notification was handled before
\* it, and a third notification waits in the stream.
C11_Witness ==
    /\ task["auto"].pc = "proposing"
    /\ task["auto"].started = 2
    /\ nextTx = 3
    /\ stream = <<3>>

\* C12: the environment lock is held only during the init call and the
\* import lock only during import_block, so never across the propose await
\* and never both by one run; two init calls never overlap; and a run that
\* waits for a lock waits for a holder that can finish its call and release
\* it, so no run waits forever.
C12_NoDeadlock ==
    /\ \A p \in Procs :
          /\ envLock = p => task[p].pc = "init"
          /\ importLock = p => task[p].pc = "importing"
          /\ ~(envLock = p /\ importLock = p)
          /\ task[p].pc \in {"propose", "proposing"} =>
                (envLock # p /\ importLock # p)
          /\ (task[p].pc = "init_lock" /\ envLock # Free) =>
                \E q \in Procs \ {p} : envLock = q /\ ENABLED ProposerInit(q)
          /\ (task[p].pc = "import_lock" /\ importLock # Free) =>
                \E q \in Procs \ {p} : importLock = q /\ ENABLED ImportBlock(q)
          /\ (task[p].pc = "init_lock" /\ envLock = Free) => ENABLED EnvLock(p)
          /\ (task[p].pc = "import_lock" /\ importLock = Free) => ENABLED ImportLock(p)
    /\ ~(task["auto"].pc = "init" /\ task["manual"].pc = "init")

\* One run waits for the environment lock while the other is in init, and
\* the import lock is free.
C12_Witness ==
    /\ task["manual"].pc = "init_lock"
    /\ task["auto"].pc = "init"
    /\ envLock = "auto"
    /\ importLock = Free
C14_PassThrough ==
    /\ shim.wrapped = shim.bare
    /\ IsSome(shim.last) =>
          LET l == Unwrap(shim.last)
          IN /\ l.wrapped = l.bare
             /\ shim.wrapped.log # <<>>
             /\ shim.wrapped.log[Len(shim.wrapped.log)] = l.call

\* A check_block call, then an import_block call with post-digests and a
\* cache that the inner import rejected.
C14_Witness ==
    /\ Len(shim.wrapped.log) = 2
    /\ shim.wrapped.log[1].method = "check_block"
    /\ shim.wrapped.log[2].method = "import_block"
    /\ shim.wrapped.log[2].block.post_digests = <<"seal">>
    /\ shim.wrapped.log[2].cache = {"key"}
    /\ Unwrap(shim.last).wrapped = <<"Err", "ImportError">>
\* The order of the calls of a cycle.
StageOrder == <<"status", "best_chain", "init", "create_inherent_data",
                "propose", "import_block">>

\* C15: the calls of a cycle are an initial part of the sequence ready
\* check, best_chain, init, create_inherent_data, propose, import_block,
\* each made at most once; the stage that failed is the last one called,
\* so a failure before the import means no import_block call in the cycle.
C15_StageOrder ==
    \A p \in Procs :
        /\ Len(task[p].calls) <= Len(StageOrder)
        /\ task[p].calls = SubSeq(StageOrder, 1, Len(task[p].calls))
        /\ \A st \in LaterStages \cup {"status"} : Count(task[p].calls, st) <= 1
        /\ IsSome(task[p].failed) =>
              /\ task[p].pc = "done"
              /\ task[p].calls # <<>>
              /\ task[p].calls[Len(task[p].calls)] = Unwrap(task[p].failed)
              /\ (Unwrap(task[p].failed) # "import_block") =>
                    (~InCalls(task[p], "import_block") /\ task[p].import_call = None)

\* A cycle ended on a failure of create_inherent_data, after four calls.
C15_Witness ==
    /\ task["auto"].pc = "done"
    /\ task["auto"].failed = Some("create_inherent_data")
    /\ task["auto"].calls = SubSeq(StageOrder, 1, 4)

\* The step in which import_block returns an error.
FailedImportStep(p) ==
    (task[p].pc = "importing" /\ task'[p].res = Some(<<"Err", "ImportError">>)) =>
        /\ bestHead' = bestHead
        /\ task'[p].pc = "done"
        /\ task'[p].failed = Some("import_block")
        /\ importLock' # p

\* What follows a failed import: the cycle's end, where the block is dropped.
AfterFailedImport(p) ==
    (task[p].pc = "done" /\ task[p].failed = Some("import_block")) =>
        \/ task'[p] = task[p]
        \/ (task'[p].pc = "idle" /\ task'[p].block = None)

\* C16: when import_block returns an error the best head stays what it
\* was, the cycle ends with that one import_block call, logged, and the
\* block is dropped with the cycle's locals; nothing is tried again.
C16_FailedImportDiscarded ==
    /\ [][\A p \in Procs : FailedImportStep(p) /\ AfterFailedImport(p)]_vars
    /\ [](\A p \in Procs :
            task[p].failed = Some("import_block") =>
                /\ task[p].pc = "done"
                /\ Count(task[p].calls, "import_block") = 1
                /\ task[p].warns = <<[level |-> "warn", stage |-> "import_block"]>>)

\* An import of a block on genesis failed and the head is still genesis,
\* with a notification waiting for the next cycle.
C16_Witness ==
    /\ task["auto"].pc = "done"
    /\ task["auto"].failed = Some("import_block")
    /\ rpcCount = 0
    /\ bestHead = Genesis
    /\ stream # <<>>

\* The step in which best_chain succeeds.
BestChainStep(p) ==
    (task[p].pc = "best" /\ task'[p].pc = "init_lock") =>
        task'[p].best_block_header = Some(bestHead)

\* C17: the header a cycle works on is the chain's best header at the time
\* of that cycle's best_chain call, the proposer is initialized on it and
\* the proposed block is its child; so a cycle after an import that
\* advanced the head builds on the new head.
C17_HeadRequeried ==
    /\ [][\A p \in Procs : BestChainStep(p)]_vars
    /\ [](\A p \in Procs :
            /\ IsSome(task[p].proposer) =>
                  task[p].proposer = task[p].best_block_header
            /\ IsSome(task[p].block) =>
                  /\ Unwrap(task[p].block).header.parent
                        = Unwrap(task[p].proposer).number
                  /\ Unwrap(task[p].block).header.number
                        = Unwrap(task[p].proposer).number + 1)

\* The second automatic cycle proposed block 2 on the head its first cycle
\* imported.
C17_Witness ==
    /\ rpcCount = 0
    /\ task["auto"].started = 2
    /\ bestHead.number = 1
    /\ task["auto"].proposer = Some(bestHead)
    /\ IsSome(task["auto"].block)
    /\ Unwrap(task["auto"].block).header.number = 2

\* C18: the directive verify returns holds the origin, header,
\* justification and body it was given, and is marked final.
C18_VerifyFrame ==
    IsSome(vout) =>
        LET a == Unwrap(vin)
            d == Unwrap(vout).import_params
        IN /\ d.origin = a.origin
           /\ d.header = a.header
           /\ d.justification = a.justification
           /\ d.body = a.body
           /\ d.finalized = TRUE

\* verify has returned for a block read from a file, with a justification
\* and a body.
C18_Witness ==
    /\ IsSome(vout)
    /\ Unwrap(vout).import_params.origin = "File"
    /\ Unwrap(vin).justification = Some("justification")
    /\ Unwrap(vin).body = Some(<<"xt">>)
    /\ Unwrap(vin).header.number = 1

\* The step in which an automatic cycle starts.
AutoStartStep ==
    (task'["auto"].started # task["auto"].started) =>
        /\ task'["auto"].started = task["auto"].started + 1
        /\ task["auto"].pc = "idle"
        /\ task["auto"].finished = task["auto"].started
        /\ task'["auto"].pc = "check"

\* C19: automatic cycles run one after another: a cycle starts only when
\* the one before has finished, import included, so at most one is in
\* flight, and a notification that arrives meanwhile waits.
C19_AutoSequential ==
    /\ [][AutoStartStep]_vars
    /\ [](LET t == task["auto"]
          IN /\ t.started - t.finished \in {0, 1}
             /\ (t.pc \notin {"idle", "terminated"} /\ stream # <<>>)
                   => ~ENABLED AutoNext)

\* Two notifications wait while the first cycle is in its import.
C19_Witness ==
    /\ task["auto"].pc = "importing"
    /\ task["auto"].started = 1
    /\ Len(stream) = 2

\* The step in which run_instant_seal returns.
AutoReturnStep ==
    (task'["auto"].pc = "terminated" /\ task["auto"].pc # "terminated") =>
        /\ task["auto"].pc = "idle"
        /\ ~streamOpen
        /\ stream = <<>>

\* C20: run_instant_seal returns only when the notification stream has
\* ended and every notification was handled, whatever the cycles' outcomes;
\* and once the stream has ended it does return, after the cycles left.
C20_TerminatesOnClosure ==
    /\ [][AutoReturnStep]_vars
    /\ [](task["auto"].pc = "terminated" =>
            (~streamOpen /\ stream = <<>>
               /\ task["auto"].finished = nextTx))
    /\ (~streamOpen) ~> (task["auto"].pc = "terminated")

\* The task has returned after three cycles, the last of which failed.
C20_Witness ==
    /\ task["auto"].pc = "terminated"
    /\ task["auto"].finished = 3
    /\ task["auto"].prevFailed

====
